---- MODULE Spec2Model ----
(***************************************************************************)
(* The time-slot store of overlay-plans-be: TimeslotToolService            *)
(* (timeslot-tool.service.ts) on top of a TypeORM repository.              *)
(*                                                                         *)
(* Every handler is an async function on the Node.js event loop: it runs   *)
(* without interruption up to an await on the repository, and any other    *)
(* handler may run between the await and its continuation.  One action of  *)
(* this module is one such uninterrupted piece together with the           *)
(* repository statement it issues (statements of one connection execute    *)
(* in the order they are issued).  The user and project tables are not     *)
(* written by the service, so a lookup in them is folded into the          *)
(* continuation that uses its result.                                      *)
(***************************************************************************)
EXTENDS Integers, Sequences, FiniteSets, TLC

(* ----------------------------- bounds ---------------------------------- *)
NumProcs == 2      \* handlers that may be in flight at the same time
MaxCalls == 3      \* calls made in one behaviour
MaxBatch == 2      \* items (ids) of one batch
MaxSlots == 3      \* rows the auto-increment key hands out
MaxTime == 2       \* instants: startTime and endTime range over 1..MaxTime

Procs == 1..NumProcs
Ids == 1..MaxSlots

(* ------------------------- tables and inputs --------------------------- *)
Users == {1, 2, 3, 11}          \* rows of the user table
Projects == {1, 2}              \* rows of the project table
RequestUserIds == {1, 2, 3, 4}           \* 4 resolves to no user
RequestProjectIds == Projects \cup {3}  \* 3 resolves to no project
Status == {"available", "busy"}
NoId == 0                        \* an entity that was not inserted yet

Opt(S) == {<<>>} \cup {<<v>> : v \in S}   \* an optional parameter
Has(o) == o # <<>>
Val(o) == o[1]

(* A TimeSlot row (entities/time-slot.entity.ts) with its relations loaded. *)
\* A column that is null, undefined or the empty string is "".
Slot(id, project, user, createdBy, isLocked, status, startTime, endTime, notes, color) ==
    [id |-> id, project |-> project, user |-> user, createdBy |-> createdBy,
     isLocked |-> isLocked, status |-> status, startTime |-> startTime,
     endTime |-> endTime, notes |-> notes, color |-> color]

(* constants/colors.ts *)
PRESET_COLORS ==
    <<"#FF5733", "#33FF57", "#3357FF", "#FF33F5", "#F5FF33",
      "#33FFF5", "#FF8333", "#8333FF", "#33A0FF", "#FF3333">>

\* a palette lookup that forgets to wrap around
firstColor(id) == PRESET_COLORS[1]

\* PRESET_COLORS[id % PRESET_COLORS.length], the array counted from 0
getColorForId(id) == PRESET_COLORS[(id % Len(PRESET_COLORS)) + 1]

\* a hook that overwrites the color the slot carries
resetColor(timeSlot) == [timeSlot EXCEPT !.color = getColorForId(timeSlot.user)]

\* TimeSlot.setDefaultColor, run @BeforeInsert and @BeforeUpdate
setDefaultColor(timeSlot) ==
    IF timeSlot.color = "" /\ timeSlot.user # 0
       THEN [timeSlot EXCEPT !.color = getColorForId(timeSlot.user)]
       ELSE timeSlot

VARIABLES
    store,      \* the time_slot table: id -> row
    nextId,     \* the auto-increment key of the table
    pc,         \* per handler: where it stands
    call,       \* per handler: the parameters of its call
    snapshot,   \* per handler: existingTimeslots, as the find returned them
    work,       \* per handler: the entities it passed to save, in order
    pending,    \* per handler: indices of work whose save has not committed
    result,     \* per handler: what the call returned
    calls,      \* calls made so far
    base,       \* history: the table when the handlers in flight began
    since,      \* history: calls that arrived since base was taken
    events,     \* the timeslots_updated events broadcast so far, in order
    unsent,     \* history: gateway handlers whose mutation is committed and
                \* whose event is not out yet, in the order of the commits
    userStates, \* TelegramService.userStates: Telegram user -> UserStateData
    handler,    \* per Telegram handler: where it stands, and its locals
    selected,   \* history: per Telegram user, the project last selected
    conversationContexts,   \* OpenAIService.conversationContexts
    said,       \* history: per context, every message stored so far, in order
    updates     \* Telegram updates taken so far

\* the state of the time slot service and of the gateway
service == <<store, nextId, pc, call, snapshot, work, pending, result, calls,
             base, since, events, unsent>>

\* the state of the Telegram bot and of its conversations
telegram == <<userStates, handler, selected, conversationContexts, said, updates>>

vars == <<store, nextId, pc, call, snapshot, work, pending, result, calls,
          base, since, events, unsent,
          userStates, handler, selected, conversationContexts, said, updates>>

\* the table and its key
Db(st, key) == [store |-> st, nextId |-> key]
NoDb == Db(<<>>, 0)

(* ------------------------------ helpers -------------------------------- *)
Range(s) == {s[i] : i \in DOMAIN s}

\* every enumeration, without repetition, of the finite set S
Perms(S) ==
    {f \in [1..Cardinality(S) -> S] : \A i, j \in 1..Cardinality(S) : i # j => f[i] # f[j]}

IdsOf(rows) == [i \in DOMAIN rows |-> rows[i].id]

RECURSIVE SumOver(_, _)
SumOver(f, S) ==
    IF S = {} THEN 0
    ELSE LET x == CHOOSE y \in S : TRUE IN f[x] + SumOver(f, S \ {x})

(* ---------------------- the repository (TypeORM) ----------------------- *)
\* find({ where: { id: In(ids) } }): the rows whose id is listed, each once.
\* The query has no ORDER BY, so the rows come back in any order.
FindByIds(st, ids) == Perms({st[i] : i \in Range(ids) \cap DOMAIN st})

\* save(entity) of an entity that carries an id: the row is written as the
\* entity stands in memory; a row that is gone is inserted again.
SaveRow(st, e) == [i \in DOMAIN st \cup {e.id} |-> IF i = e.id THEN e ELSE st[i]]

\* a removal that stops after the row with the least id
DeleteFirst(st, ids) ==
    [i \in DOMAIN st \ {x \in ids : \A y \in ids : x <= y} |-> st[i]]

\* delete({ id: In(ids) }) and remove(entities): one statement.
DeleteRows(st, ids) == [i \in DOMAIN st \ ids |-> st[i]]

\* the same query without its order
FindUnordered(st, userId, projectId) ==
    Perms({st[i] : i \in {j \in DOMAIN st :
                        st[j].user = userId /\ st[j].project = projectId}})

\* find({ where: { user, project }, order: { startTime: 'ASC' } })
FindUserSlots(st, userId, projectId) ==
    {f \in Perms({st[i] : i \in {j \in DOMAIN st :
                        st[j].user = userId /\ st[j].project = projectId}}) :
        \A i, j \in DOMAIN f : i < j => f[i].startTime <= f[j].startTime}

(* -------------------- TimeslotToolService, pure parts ------------------ *)
\* The result objects: { success, timeslots?, deletedCount?, error? }.  The
\* error text is kept as its kind and the ids it lists.
Pending ==
    [returned |-> FALSE, success |-> FALSE, error |-> "", ids |-> <<>>,
     deletedCount |-> 0, timeslots |-> <<>>]
Failure(kind, ids) ==
    [returned |-> TRUE, success |-> FALSE, error |-> kind, ids |-> ids,
     deletedCount |-> 0, timeslots |-> <<>>]
Success(timeslots, deletedCount) ==
    [returned |-> TRUE, success |-> TRUE, error |-> "", ids |-> <<>>,
     deletedCount |-> deletedCount, timeslots |-> timeslots]

\* a length check that passes as soon as one row was found
SomeFound(found, ids) == Len(found) > 0

\* existingTimeslots.length !== timeslotIds.length, negated
AllFound(found, ids) == Len(found) = Len(ids)

\* timeslotIds.filter((id) => !foundIds.includes(id))
MissingIds(ids, found) ==
    SelectSeq(ids, LAMBDA i : i \notin Range(IdsOf(found)))

\* a project check that looks at no row
NoneInvalid(found, projectId) == <<>>

\* existingTimeslots.filter((slot) => slot.project.id !== params.projectId)
InvalidTimeslots(found, projectId) ==
    SelectSeq(found, LAMBDA slot : slot.project # projectId)

\* a permission check that refuses nobody
NeverRefused(timeSlot, requestUserId) == FALSE

\* timeSlot.isLocked && timeSlot.createdBy?.id !== requestUserId
\*                    && timeSlot.user.id !== requestUserId
CannotModify(timeSlot, requestUserId) ==
    /\ timeSlot.isLocked
    /\ timeSlot.createdBy # requestUserId
    /\ timeSlot.user # requestUserId

\* an update that forgets who created the slot
Disown(timeSlot, update) == [timeSlot EXCEPT !.createdBy = NoId]

\* an update that writes the notes and the color of the item whether the
\* item has them or not
ApplyWhole(timeSlot, update) ==
    [timeSlot EXCEPT
        !.startTime = IF Has(update.startTime) THEN Val(update.startTime) ELSE @,
        !.endTime   = IF Has(update.endTime)   THEN Val(update.endTime)   ELSE @,
        !.notes     = IF Has(update.notes)     THEN Val(update.notes)     ELSE "",
        !.status    = IF Has(update.status)    THEN Val(update.status)    ELSE @,
        !.isLocked  = IF Has(update.isLocked)  THEN Val(update.isLocked)  ELSE @,
        !.color     = IF Has(update.color)     THEN Val(update.color)     ELSE ""]

\* the "Apply updates" block of updateTimeslots
ApplyUpdate(timeSlot, update) ==
    [timeSlot EXCEPT
        !.startTime = IF Has(update.startTime) THEN Val(update.startTime) ELSE @,
        !.endTime   = IF Has(update.endTime)   THEN Val(update.endTime)   ELSE @,
        !.notes     = IF Has(update.notes)     THEN Val(update.notes)     ELSE @,
        !.status    = IF Has(update.status)    THEN Val(update.status)    ELSE @,
        !.isLocked  = IF Has(update.isLocked)  THEN Val(update.isLocked)  ELSE @,
        !.color     = IF Has(update.color)     THEN Val(update.color)     ELSE @]

\* existingTimeslots.find((slot) => slot.id === update.id); undefined when
\* no row has the id, and the callback then throws on timeSlot.isLocked
Found(found, id) == \E i \in DOMAIN found : found[i].id = id
SlotOf(found, id) == found[CHOOSE i \in DOMAIN found : found[i].id = id]

\* the callback of this update item throws
Throws(found, update, requestUserId) ==
    \/ ~Found(found, update.id)
    \/ CannotModify(SlotOf(found, update.id), requestUserId)

\* the update items whose callback throws, in the order of the batch
RefusedUpdates(found, items, requestUserId) ==
    SelectSeq(items, LAMBDA u : Throws(found, u, requestUserId))

\* the entities the other callbacks hand to save, in the order of the batch
UpdatedEntities(found, items, requestUserId) ==
    LET allowed == SelectSeq(items, LAMBDA u : ~Throws(found, u, requestUserId))
    IN  [i \in DOMAIN allowed |-> ApplyUpdate(SlotOf(found, allowed[i].id), allowed[i])]

\* what the catch block of updateTimeslots returns for the first throw
UpdateError(found, update) ==
    IF Found(found, update.id) THEN Failure("Forbidden", <<update.id>>)
    ELSE Failure("Exception", <<>>)

\* a permission loop that stops after the first row
RefusedFirst(found, requestUserId) ==
    SelectSeq(SubSeq(found, 1, IF found = <<>> THEN 0 ELSE 1),
              LAMBDA slot : CannotModify(slot, requestUserId))

\* "Check permissions for each timeslot" of delete and merge: the slots at
\* which the loop returns, in the order it visits them
RefusedSlots(found, requestUserId) ==
    SelectSeq(found, LAMBDA slot : CannotModify(slot, requestUserId))

\* timeSlotRepository.create({...}) of addTimeslots
NewTimeslot(item, projectId, userId, creatorId) ==
    Slot(NoId, projectId, userId, creatorId,
         IF Has(item.isLocked) THEN Val(item.isLocked) ELSE FALSE,
         Val(item.status), Val(item.startTime), Val(item.endTime),
         IF Has(item.notes) THEN Val(item.notes) ELSE "",
         IF Has(item.color) THEN Val(item.color) ELSE "")

\* Array.prototype.sort with (a, b) => a.startTime - b.startTime: stable
RECURSIVE InsertByStart(_, _)
InsertByStart(slot, sorted) ==
    IF sorted = <<>> THEN <<slot>>
    ELSE IF slot.startTime < Head(sorted).startTime THEN <<slot>> \o sorted
    ELSE <<Head(sorted)>> \o InsertByStart(slot, Tail(sorted))

RECURSIVE SortFrom(_, _)
SortFrom(sorted, rest) ==
    IF rest = <<>> THEN sorted
    ELSE SortFrom(InsertByStart(Head(rest), sorted), Tail(rest))

\* a sort that leaves the rows as the store returned them
Unsorted(slots) == slots

SortByStart(slots) == SortFrom(<<>>, slots)

\* existingTimeslots.reduce((latest, slot) => ..., existingTimeslots[0].endTime)
RECURSIVE LatestEnd(_, _)
LatestEnd(latest, slots) ==
    IF slots = <<>> THEN latest
    ELSE LatestEnd(IF Head(slots).endTime > latest THEN Head(slots).endTime ELSE latest,
                   Tail(slots))

\* .map((slot) => slot.notes).filter(Boolean).join('; ')
RECURSIVE JoinNotes(_)
JoinNotes(slots) ==
    IF slots = <<>> THEN ""
    ELSE LET rest == JoinNotes(Tail(slots)) IN
         IF Head(slots).notes = "" THEN rest
         ELSE IF \A i \in DOMAIN Tail(slots) : Tail(slots)[i].notes = ""
              THEN Head(slots).notes
              ELSE Head(slots).notes \o "; " \o rest

\* a lock test that looks at the first row only
FirstLocked(slots) == slots[1].isLocked

\* existingTimeslots.some((slot) => slot.isLocked)
AnyLocked(slots) == \E i \in DOMAIN slots : slots[i].isLocked

\* the slot whose status, user and project the merged slot takes:
\* const firstTimeslot = existingTimeslots[0], read before the sort
FirstTimeslot(found) == found[1]

\* a merged slot that covers only the time every input covers: from the
\* latest start to the earliest end
MergedOverlap(found, requestUserId, mergedNotes) ==
    LET firstTimeslot == FirstTimeslot(found)
        sorted == SortByStart(found)
        starts == {found[i].startTime : i \in DOMAIN found}
        ends == {found[i].endTime : i \in DOMAIN found}
    IN  Slot(NoId, firstTimeslot.project, firstTimeslot.user, requestUserId,
             AnyLocked(sorted),
             firstTimeslot.status,
             CHOOSE t \in starts : \A u \in starts : t >= u,
             CHOOSE t \in ends : \A u \in ends : t <= u,
             JoinNotes(sorted),
             "")

\* a merged slot that keeps the creator of the first slot
MergedByFirstCreator(found, requestUserId, mergedNotes) ==
    LET firstTimeslot == FirstTimeslot(found)
        sorted == SortByStart(found)
    IN  Slot(NoId, firstTimeslot.project, firstTimeslot.user, firstTimeslot.createdBy,
             AnyLocked(sorted),
             firstTimeslot.status,
             sorted[1].startTime,
             LatestEnd(sorted[1].endTime, sorted),
             IF Has(mergedNotes) /\ Val(mergedNotes) # "" THEN Val(mergedNotes)
             ELSE JoinNotes(sorted),
             "")

\* timeSlotRepository.create({...}) of mergeTimeslots, after the sort
MergedSlot(found, requestUserId, mergedNotes) ==
    LET firstTimeslot == FirstTimeslot(found)
        sorted == SortByStart(found)
    IN  Slot(NoId, firstTimeslot.project, firstTimeslot.user, requestUserId,
             AnyLocked(sorted),
             firstTimeslot.status,
             sorted[1].startTime,
             LatestEnd(sorted[1].endTime, sorted),
             IF Has(mergedNotes) /\ Val(mergedNotes) # "" THEN Val(mergedNotes)
             ELSE JoinNotes(sorted),
             "")

(* ------------------------------ requests ------------------------------- *)
\* One item of a batch: an add item carries no id, an update item carries
\* the id and only the fields to change.
Item(id, startTime, endTime, notes, status, isLocked, color) ==
    [id |-> id, startTime |-> startTime, endTime |-> endTime, notes |-> notes,
     status |-> status, isLocked |-> isLocked, color |-> color]

\* The parameters of a call, and the way it came in: "tool" when
\* OpenAIService.callFunction calls the service, "gateway" when a handler of
\* TimeslotGateway does.
Call(op, projectId, userId, createdById, ids, items, mergedNotes) ==
    [op |-> op, projectId |-> projectId, userId |-> userId,
     createdById |-> createdById, ids |-> ids, items |-> items,
     mergedNotes |-> mergedNotes, via |-> "tool",
     requestUserId |-> 0, requestUserTelegramId |-> 0]

\* The data of a project_update_timeslots, project_delete_timeslots or
\* project_merge_timeslots message: requestUserId and requestUserTelegramId
\* are both optional, 0 when the message has none (`!requestUserId`).  The
\* handler fills in userId.
Message(op, projectId, requestUserId, requestUserTelegramId, ids, items, mergedNotes) ==
    [Call(op, projectId, 0, <<>>, ids, items, mergedNotes) EXCEPT
        !.via = "gateway",
        !.requestUserId = requestUserId,
        !.requestUserTelegramId = requestUserTelegramId]

ByGateway(cs) == {[c EXCEPT !.via = "gateway"] : c \in cs}

NoCall == Call("none", 0, 0, <<>>, <<>>, <<>>, <<>>)

Batches(S) == UNION {[1..n -> S] : n \in 1..MaxBatch}

\* the items the clients send to addTimeslots
AddItems ==
    {Item(NoId, <<2>>, <<3>>, <<"x">>, <<"available">>, <<>>, <<"#000000">>),
     Item(NoId, <<1>>, <<2>>, <<>>, <<"busy">>, <<TRUE>>, <<>>)}

\* the changes the clients send to updateTimeslots, for the slot id
UpdateItems(id) ==
    {Item(id, <<>>, <<>>, <<>>, <<"busy">>, <<>>, <<>>),
     Item(id, <<>>, <<>>, <<>>, <<>>, <<TRUE>>, <<>>),
     Item(id, <<>>, <<>>, <<>>, <<>>, <<FALSE>>, <<>>)}

\* items that carry what the type of the parameter does not allow, or the
\* empty string: nothing checks an item at run time
OddAddItems ==
    {Item(NoId, <<1>>, <<1>>, <<"">>, <<"available">>, <<FALSE>>, <<"">>),
     Item(NoId, <<1>>, <<2>>, <<>>, <<"tentative">>, <<>>, <<>>)}

\* changes of one field each, to a value or to the empty string
OtherUpdateItems(id) ==
    {Item(id, <<2>>, <<>>, <<>>, <<>>, <<>>, <<>>),
     Item(id, <<>>, <<1>>, <<>>, <<>>, <<>>, <<>>),
     Item(id, <<>>, <<>>, <<"">>, <<>>, <<>>, <<>>),
     Item(id, <<>>, <<>>, <<>>, <<>>, <<>>, <<"#111111">>),
     Item(id, <<>>, <<>>, <<>>, <<>>, <<>>, <<"">>),
     Item(id, <<>>, <<>>, <<>>, <<"tentative">>, <<>>, <<>>)}

\* What the clients send.  A load names, per operation, the calls that can
\* arrive; each specification below is the service under one load.
Load(add, update, delete, merge, read) ==
    [add |-> add, update |-> update, delete |-> delete, merge |-> merge, read |-> read]

AddCalls(projectIds, users, items) ==
    {Call("add", pr, u[1], u[2], <<>>, its, <<>>) :
        pr \in projectIds, u \in users, its \in items}

\* every item of an update batch carries the same change
UpdateCallsOf(projectIds, userIds, idBatches, changes) ==
    {Call("update", pr, u, <<>>, IdsOf(its), its, <<>>) :
        pr \in projectIds, u \in userIds,
        its \in UNION {{[i \in DOMAIN ids |-> [c EXCEPT !.id = ids[i]]] :
                            c \in changes} : ids \in idBatches}}

UpdateCalls(projectIds, userIds, idBatches) ==
    UpdateCallsOf(projectIds, userIds, idBatches, UpdateItems(NoId))

DeleteCalls(projectIds, userIds, idBatches) ==
    {Call("delete", pr, u, <<>>, ids, <<>>, <<>>) :
        pr \in projectIds, u \in userIds, ids \in idBatches}

MergeCalls(projectIds, userIds, idBatches, notes) ==
    {Call("merge", pr, u, <<>>, ids, <<>>, n) :
        pr \in projectIds, u \in userIds, ids \in idBatches, n \in notes}

ReadCalls(projectIds, userIds) ==
    {Call("read", pr, u, <<>>, <<>>, <<>>, <<>>) : pr \in projectIds, u \in userIds}

\* batches that name each slot once
Distinct(batches) ==
    {b \in batches : \A i, j \in DOMAIN b : i # j => b[i] # b[j]}

\* the load of the concurrent service: user 1 owns the slots, users 1 and 3
\* work on them
ConcurrentLoad ==
    LET ids == Distinct(Batches(1..MaxBatch)) IN
    Load(AddCalls({1}, {<<1, <<>>>>}, Batches(AddItems)),
         UpdateCalls({1}, {1, 3}, ids),
         DeleteCalls({1}, {1, 3}, ids),
         MergeCalls({1}, {1, 3}, ids, {<<>>}),
         ReadCalls({1}, {1}))

(* ----------------------------- the Telegram bot ------------------------ *)
\* the telegramId column of the user table
TelegramIdOf == [u \in Users |-> 100 + u]

MaxUpdates == 4     \* Telegram updates taken in one behaviour
MaxToolCalls == 3   \* tool calls in one response of the model

\* Telegram users that write to the bot: users 1 and 2
TgUsers == {TelegramIdOf[1], TelegramIdOf[2]}

\* the handlers of Telegram updates that may be in flight at the same time
Handlers == 1..NumProcs

\* UserStateData; currentProjectId is 0 when the entry has none
UserStateData(state, currentProjectId) ==
    [state |-> state, currentProjectId |-> currentProjectId]

\* the Map has no entry for the user
NoUserState == UserStateData("", 0)

\* `this.userStateMap.get(tgUser.id) || { state: UserState.INITIAL }`
GetUserState(tgUser) ==
    IF userStates[tgUser] = NoUserState THEN UserStateData("initial", 0)
    ELSE userStates[tgUser]

\* the check both message handlers make before they process a message
IsInProject(userState) ==
    userState.state = "in_project" /\ userState.currentProjectId # 0

\* `{ ...userState, state: UserState.IN_PROJECT }`
ResetState(userState) == [userState EXCEPT !.state = "in_project"]

\* a handler that is not running
NoHandler ==
    [pc |-> "idle", kind |-> "", tgUser |-> 0, userState |-> NoUserState,
     projectId |-> 0, number |-> 0, conversationHistory |-> <<>>]

\* A ChatCompletionMessageParam.  n stands for the content: the number of
\* the update that produced the message and its place among the messages
\* of that update.  The id of a tool call is the n of the tool message that
\* answers it.
ChatMessage(role, n, tool_calls, tool_call_id) ==
    [role |-> role, n |-> n, tool_calls |-> tool_calls, tool_call_id |-> tool_call_id]

\* messages one processMessage call can store
PerUpdate == MaxToolCalls + 3

\* `messages.slice(-10)`
HistoryLimit == 10

\* a slice from the front
firstMessages(messages) ==
    SubSeq(messages, 1, IF Len(messages) > HistoryLimit THEN HistoryLimit ELSE Len(messages))

limitedMessages(messages) ==
    SubSeq(messages,
           IF Len(messages) > HistoryLimit THEN Len(messages) - HistoryLimit + 1 ELSE 1,
           Len(messages))

\* a validation that keeps what it is given
keepMessages(messages) == messages

\* OpenAIService.validateToolCallsPattern: the messages it leaves in the array
validateToolCallsPattern(messages) ==
    LET toolMessages == SelectSeq(messages, LAMBDA msg : msg.role = "tool")
        toolCallIdsFromToolMessages == {msg.tool_call_id : msg \in Range(toolMessages)}
        assistantMessagesWithToolCalls ==
            SelectSeq(messages, LAMBDA msg : msg.role = "assistant" /\ msg.tool_calls # <<>>)
        allToolCallIds ==
            UNION {Range(msg.tool_calls) : msg \in Range(assistantMessagesWithToolCalls)}
        toolCallIdsToRemove ==
            (toolCallIdsFromToolMessages \ allToolCallIds)
            \cup (allToolCallIds \ toolCallIdsFromToolMessages)
        filteredMessages ==
            SelectSeq(messages, LAMBDA msg :
                msg.role # "tool" \/ msg.tool_call_id \notin toolCallIdsToRemove)
        Kept(msg) ==
            IF msg.role = "assistant" /\ msg.tool_calls # <<>>
               THEN [msg EXCEPT !.tool_calls =
                        SelectSeq(@, LAMBDA tc : tc \notin toolCallIdsToRemove)]
               ELSE msg
    IN  IF toolMessages = <<>> \/ toolCallIdsToRemove = {} THEN messages
        ELSE [i \in DOMAIN filteredMessages |-> Kept(filteredMessages[i])]

\* OpenAIService.updateConversationContext: the messages it stores
updateConversationContext(messages) ==
    validateToolCallsPattern(limitedMessages(messages))

\* what processMessage pushes after the user's message when the model
\* answers update number `number` with k tool calls
Answer(number, k) ==
    LET n(i) == number * PerUpdate + i IN
    IF k = 0 THEN <<ChatMessage("assistant", n(1), <<>>, 0)>>
    ELSE <<ChatMessage("assistant", n(1), [i \in 1..k |-> n(1 + i)], 0)>>
         \o [i \in 1..k |-> ChatMessage("tool", n(1 + i), <<>>, n(1 + i))]
         \o <<ChatMessage("assistant", n(2 + k), <<>>, 0)>>

TelegramInit ==
    /\ userStates = [u \in TgUsers |-> NoUserState]
    /\ handler = [b \in Handlers |-> NoHandler]
    /\ selected = [u \in TgUsers |-> [projectId |-> 0, during |-> FALSE]]
    /\ conversationContexts = [pr \in Projects |-> <<>>]
    /\ said = [pr \in Projects |-> <<>>]
    /\ updates = 0

(* ------------------------------- state --------------------------------- *)
Init ==
    /\ store = <<>>
    /\ nextId = 1
    /\ pc = [p \in Procs |-> "idle"]
    /\ call = [p \in Procs |-> NoCall]
    /\ snapshot = [p \in Procs |-> <<>>]
    /\ work = [p \in Procs |-> <<>>]
    /\ pending = [p \in Procs |-> {}]
    /\ result = [p \in Procs |-> Pending]
    /\ calls = 0
    /\ base = NoDb
    /\ since = 0
    /\ events = <<>>
    /\ unsent = <<>>
    /\ TelegramInit

\* rows a handler in flight may still insert
Outstanding(p) ==
    IF call[p].op = "merge" /\ pc[p] = "user" THEN 1
    ELSE IF call[p].op = "add" THEN Cardinality(pending[p])
    ELSE 0

Room == MaxSlots - (nextId - 1) - SumOver([p \in Procs |-> Outstanding(p)], Procs)

\* a handler is invoked: the lowest free handler slot takes the call
CanStart(p) ==
    /\ pc[p] = "idle"
    /\ calls < MaxCalls
    /\ \A q \in Procs : q < p => pc[q] # "idle"

Begin(p, c) ==
    /\ call' = [call EXCEPT ![p] = c]
    /\ calls' = calls + 1
    /\ IF \A q \in Procs : pc[q] = "idle"
          THEN base' = Db(store, nextId) /\ since' = 1
          ELSE base' = base /\ since' = since + 1
    /\ UNCHANGED events

Mutations == {"add", "update", "delete", "merge"}

\* the call returns (or, for a rejected update, has returned) r and the
\* handler has nothing left to do
Finish(p, r) ==
    /\ pc' = [pc EXCEPT ![p] = "done"]
    /\ result' = [result EXCEPT ![p] = r]
    /\ unsent' = IF r.success /\ call[p].via = "gateway" /\ call[p].op \in Mutations
                  THEN Append(unsent, p) ELSE unsent


\* find + "Check if we found all timeslots" + "Check if all timeslots belong
\* to the specified project": the head shared by update, delete and merge
Validate(p, c) ==
    \E found \in FindByIds(store, c.ids) :
        /\ snapshot' = [snapshot EXCEPT ![p] = found]
        /\ IF ~AllFound(found, c.ids)
              THEN Finish(p, Failure("NotFound", MissingIds(c.ids, found)))
           ELSE IF InvalidTimeslots(found, c.projectId) # <<>>
              THEN Finish(p, Failure("WrongProject",
                                     IdsOf(InvalidTimeslots(found, c.projectId))))
           ELSE /\ pc' = [pc EXCEPT ![p] = "user"]
                /\ UNCHANGED <<result, unsent>>

\* a lookup that finds a user whatever the id
AnyUser(id) == TRUE

\* userRepository.findOne({ where: { id: params.requestUserId } }) finds a row
UserExists(id) == id \in Users

\* `params.createdById && params.createdById !== params.userId`
OtherCreator(c) == Has(c.createdById) /\ Val(c.createdById) # c.userId

\* a creator that is always the user of the slots
CreatorIsUser(c) == c.userId

\* addTimeslots: `let creator = user`, or the row of createdById
Creator(c) == IF OtherCreator(c) THEN Val(c.createdById) ELSE c.userId

\* lookups that leave out the creator
AddRefusalNoCreator(c) ==
    IF c.projectId \notin Projects THEN "ProjectNotFound"
    ELSE IF c.userId \notin Users THEN "UserNotFound"
    ELSE ""

\* addTimeslots: the lookups of project, user and creator; the failure the
\* first missing one gives, "" when all resolve
AddRefusal(c) ==
    IF c.projectId \notin Projects THEN "ProjectNotFound"
    ELSE IF c.userId \notin Users THEN "UserNotFound"
    ELSE IF OtherCreator(c) /\ Val(c.createdById) \notin Users THEN "CreatorNotFound"
    ELSE ""

\* TimeslotToolService.findUserByTelegramId: the user with that Telegram
\* id, <<>> when there is none
findUserByTelegramId(telegramId) ==
    LET found == {u \in Users : TelegramIdOf[u] = telegramId}
    IN  IF found = {} THEN <<>> ELSE <<CHOOSE u \in found : TRUE>>

\* a handler that looks at the Telegram id first
TelegramFirst(data) ==
    IF data.requestUserTelegramId # 0
       THEN findUserByTelegramId(data.requestUserTelegramId)
       ELSE IF data.requestUserId # 0 THEN <<data.requestUserId>> ELSE <<>>

\* the head of handleUpdateTimeslots, handleDeleteTimeslots and
\* handleMergeTimeslots: the requestUserId the store is called with, <<>>
\* when the handler returns before it calls the store
RequestUserId(data) ==
    IF data.requestUserId # 0 THEN <<data.requestUserId>>
    ELSE IF data.requestUserTelegramId # 0
       THEN findUserByTelegramId(data.requestUserTelegramId)
       ELSE <<>>

(* ------------------------------ actions -------------------------------- *)
\* getUserTimeSlots
GetUserTimeSlots(p, load) ==
    \E c \in load.read :
        /\ CanStart(p)
        /\ Begin(p, c)
        /\ \E rows \in FindUserSlots(store, c.userId, c.projectId) :
              Finish(p, Success(rows, 0))
        /\ UNCHANGED <<store, nextId, snapshot, work, pending>>
        /\ UNCHANGED telegram

\* addTimeslots up to the saves it starts
AddTimeslots(p, load) ==
    \E c \in load.add :
        /\ CanStart(p)
        /\ Len(c.items) <= Room
        /\ Begin(p, c)
        /\ IF AddRefusal(c) # ""
              THEN /\ Finish(p, Failure(AddRefusal(c), <<>>))
                   /\ UNCHANGED <<work, pending>>
           ELSE IF c.items = <<>>
              THEN /\ Finish(p, Success(<<>>, 0))
                   /\ UNCHANGED <<work, pending>>
              ELSE /\ work' = [work EXCEPT ![p] =
                            [i \in DOMAIN c.items |->
                                NewTimeslot(c.items[i], c.projectId, c.userId, Creator(c))]]
                   /\ pending' = [pending EXCEPT ![p] = DOMAIN c.items]
                   /\ pc' = [pc EXCEPT ![p] = "saving"]
                   /\ UNCHANGED <<result, unsent>>
        /\ UNCHANGED <<store, nextId, snapshot>>
        /\ UNCHANGED telegram

\* one save of addTimeslots commits: the row is inserted under the next key
SaveCreated(p) ==
    /\ pc[p] = "saving"
    /\ call[p].op = "add"
    /\ \E i \in pending[p] :
        LET saved == setDefaultColor([work[p][i] EXCEPT !.id = nextId])
            rest == pending[p] \ {i}
            done == [work[p] EXCEPT ![i] = saved]
        IN  /\ store' = SaveRow(store, saved)
            /\ nextId' = nextId + 1
            /\ work' = [work EXCEPT ![p] = done]
            /\ pending' = [pending EXCEPT ![p] = rest]
            /\ IF rest = {}
                  THEN Finish(p, IF result[p].returned THEN result[p]
                                 ELSE Success(done, 0))
                  ELSE UNCHANGED <<pc, result, unsent>>
    /\ UNCHANGED <<call, snapshot, calls, base, since, events>>
    /\ UNCHANGED telegram

\* updateTimeslots up to the end of its project check
UpdateTimeslots(p, load) ==
    \E c \in load.update :
        /\ CanStart(p)
        /\ Begin(p, c)
        /\ Validate(p, c)
        /\ UNCHANGED <<store, nextId, work, pending>>
        /\ UNCHANGED telegram

\* updateTimeslots from the user lookup through Promise.all(map(...)): every
\* callback runs to its save or its throw before the handler yields again
UpdateEach(p) ==
    /\ pc[p] = "user"
    /\ call[p].op = "update"
    /\ IF ~UserExists(call[p].userId)
          THEN /\ Finish(p, Failure("UserNotFound", <<>>))
               /\ UNCHANGED <<work, pending>>
       ELSE LET refused == RefusedUpdates(snapshot[p], call[p].items, call[p].userId)
                saves == UpdatedEntities(snapshot[p], call[p].items, call[p].userId)
                thrown == IF refused # <<>>
                          THEN UpdateError(snapshot[p], refused[1])
                          ELSE Pending
            IN  /\ work' = [work EXCEPT ![p] = saves]
                /\ pending' = [pending EXCEPT ![p] = DOMAIN saves]
                /\ IF saves = <<>>
                      THEN Finish(p, IF refused # <<>> THEN thrown ELSE Success(<<>>, 0))
                      ELSE /\ pc' = [pc EXCEPT ![p] = "saving"]
                           /\ result' = [result EXCEPT ![p] = thrown]
                           /\ UNCHANGED unsent
    /\ UNCHANGED <<store, nextId, call, snapshot, calls, base, since, events>>
    /\ UNCHANGED telegram

\* one save of updateTimeslots commits
SaveUpdated(p) ==
    /\ pc[p] = "saving"
    /\ call[p].op = "update"
    /\ \E i \in pending[p] :
        LET saved == setDefaultColor(work[p][i])
            rest == pending[p] \ {i}
            done == [work[p] EXCEPT ![i] = saved]
        IN  /\ store' = SaveRow(store, saved)
            /\ work' = [work EXCEPT ![p] = done]
            /\ pending' = [pending EXCEPT ![p] = rest]
            /\ IF rest = {}
                  THEN Finish(p, IF result[p].returned THEN result[p]
                                 ELSE Success(done, 0))
                  ELSE UNCHANGED <<pc, result, unsent>>
    /\ UNCHANGED <<nextId, call, snapshot, calls, base, since, events>>
    /\ UNCHANGED telegram

\* One save of addTimeslots or updateTimeslots is rejected by the database:
\* Promise.all rejects, the catch block returns the failure, and the saves
\* that were started with it go on.
SaveFails(p) ==
    /\ pc[p] = "saving"
    /\ call[p].op \in {"add", "update"}
    /\ \E i \in pending[p] :
        LET rest == pending[p] \ {i}
            r == IF result[p].returned THEN result[p] ELSE Failure("Exception", <<>>)
        IN  /\ pending' = [pending EXCEPT ![p] = rest]
            /\ IF rest = {}
                  THEN Finish(p, r)
                  ELSE /\ result' = [result EXCEPT ![p] = r]
                       /\ UNCHANGED <<pc, unsent>>
    /\ UNCHANGED <<store, nextId, call, snapshot, work, calls, base, since, events>>
    /\ UNCHANGED telegram

\* deleteTimeslots up to the end of its project check
DeleteTimeslots(p, load) ==
    \E c \in load.delete :
        /\ CanStart(p)
        /\ Begin(p, c)
        /\ Validate(p, c)
        /\ UNCHANGED <<store, nextId, work, pending>>
        /\ UNCHANGED telegram

\* deleteTimeslots from the user lookup through the delete statement
DeleteChecked(p) ==
    /\ pc[p] = "user"
    /\ call[p].op = "delete"
    /\ LET refused == RefusedSlots(snapshot[p], call[p].userId)
       IN  IF ~UserExists(call[p].userId)
              THEN /\ Finish(p, Failure("UserNotFound", <<>>))
                   /\ UNCHANGED store
           ELSE IF refused # <<>>
              THEN /\ Finish(p, Failure("Forbidden", <<refused[1].id>>))
                   /\ UNCHANGED store
           ELSE /\ store' = DeleteRows(store, Range(call[p].ids))
                /\ Finish(p, Success(<<>>,
                        Cardinality(DOMAIN store \cap Range(call[p].ids))))
    /\ UNCHANGED <<nextId, call, snapshot, work, pending, calls, base, since, events>>
    /\ UNCHANGED telegram

\* mergeTimeslots up to the end of its project check
MergeTimeslots(p, load) ==
    \E c \in load.merge :
        /\ CanStart(p)
        /\ Room >= 1
        /\ Begin(p, c)
        /\ Validate(p, c)
        /\ UNCHANGED <<store, nextId, work, pending>>
        /\ UNCHANGED telegram

\* mergeTimeslots from the user lookup through the save of the merged slot
MergeSave(p) ==
    /\ pc[p] = "user"
    /\ call[p].op = "merge"
    /\ LET refused == RefusedSlots(snapshot[p], call[p].userId)
       IN  IF ~UserExists(call[p].userId)
              THEN /\ Finish(p, Failure("UserNotFound", <<>>))
                   /\ UNCHANGED <<store, nextId, work>>
           ELSE IF refused # <<>>
              THEN /\ Finish(p, Failure("Forbidden", <<refused[1].id>>))
                   /\ UNCHANGED <<store, nextId, work>>
           ELSE IF snapshot[p] = <<>>
              THEN /\ Finish(p, Failure("Exception", <<>>))
                   /\ UNCHANGED <<store, nextId, work>>
           ELSE LET saved == setDefaultColor(
                                [MergedSlot(snapshot[p], call[p].userId,
                                            call[p].mergedNotes) EXCEPT !.id = nextId])
                IN  /\ store' = SaveRow(store, saved)
                    /\ nextId' = nextId + 1
                    /\ work' = [work EXCEPT ![p] = <<saved>>]
                    /\ pc' = [pc EXCEPT ![p] = "remove"]
                    /\ UNCHANGED <<result, unsent>>
    /\ UNCHANGED <<call, snapshot, pending, calls, base, since, events>>
    /\ UNCHANGED telegram

\* mergeTimeslots: remove(existingTimeslots) and the return
MergeRemove(p) ==
    /\ pc[p] = "remove"
    /\ store' = DeleteRows(store, Range(IdsOf(snapshot[p])))
    /\ Finish(p, Success(work[p], 0))
    /\ UNCHANGED <<nextId, call, snapshot, work, pending, calls, base, since, events>>
    /\ UNCHANGED telegram

\* server.emit('timeslots_updated', { projectId, userId? })
Event(projectId, userId) == [projectId |-> projectId, userId |-> userId]

\* the event a handler of the gateway emits for its call
EventOf(c) == Event(c.projectId, IF c.op = "add" THEN <<c.userId>> ELSE <<>>)

RECURSIVE Without(_, _)
Without(queue, p) ==
    IF queue = <<>> THEN <<>>
    ELSE IF Head(queue) = p THEN Without(Tail(queue), p)
    ELSE <<Head(queue)>> \o Without(Tail(queue), p)

\* A gateway handler goes on after `await this.timeslotToolService...`: on
\* success it emits and returns the result; when the emit throws, the catch
\* block returns a failure instead.
Notify(p) ==
    /\ pc[p] = "done"
    /\ call[p].via = "gateway"
    /\ pc' = [pc EXCEPT ![p] = "replied"]
    /\ IF result[p].success /\ call[p].op \in Mutations
          THEN \/ /\ events' = Append(events, EventOf(call[p]))
                  /\ UNCHANGED result
               \/ /\ result' = [result EXCEPT ![p] = Failure("Exception", <<>>)]
                  /\ UNCHANGED events
          ELSE UNCHANGED <<events, result>>
    /\ unsent' = Without(unsent, p)
    /\ UNCHANGED <<store, nextId, call, snapshot, work, pending, calls, base, since>>
    /\ UNCHANGED telegram

\* handleUpdateTimeslots, handleDeleteTimeslots or handleMergeTimeslots up
\* to the end of the project check of the store operation it calls, or up
\* to its own return when the message names no user it can resolve
GatewayRequest(p, messages) ==
    \E data \in messages :
        /\ CanStart(p)
        /\ data.op = "merge" => Room >= 1
        /\ IF RequestUserId(data) = <<>>
              THEN /\ Begin(p, data)
                   /\ pc' = [pc EXCEPT ![p] = "replied"]
                   /\ result' = [result EXCEPT ![p] =
                        Failure(IF data.requestUserTelegramId # 0
                                THEN "TelegramUserNotFound" ELSE "NoRequestUser", <<>>)]
                   /\ UNCHANGED <<snapshot, unsent>>
              ELSE LET c == [data EXCEPT !.userId = Val(RequestUserId(data))]
                   IN  Begin(p, c) /\ Validate(p, c)
        /\ UNCHANGED <<store, nextId, work, pending>>
        /\ UNCHANGED telegram

\* the caller has its answer; the handler slot is free again
Return(p) ==
    /\ \/ pc[p] = "replied"
       \/ pc[p] = "done" /\ call[p].via = "tool"
    /\ pc' = [pc EXCEPT ![p] = "idle"]
    /\ call' = [call EXCEPT ![p] = NoCall]
    /\ snapshot' = [snapshot EXCEPT ![p] = <<>>]
    /\ work' = [work EXCEPT ![p] = <<>>]
    /\ pending' = [pending EXCEPT ![p] = {}]
    /\ result' = [result EXCEPT ![p] = Pending]
    /\ IF \A q \in Procs \ {p} : pc[q] = "idle"
          THEN base' = NoDb /\ since' = 0
          ELSE UNCHANGED <<base, since>>
    /\ UNCHANGED <<store, nextId, calls, events, unsent>>
    /\ UNCHANGED telegram

\* a call arrives
Arrive(p, load) ==
    \/ GetUserTimeSlots(p, load)
    \/ AddTimeslots(p, load)
    \/ UpdateTimeslots(p, load)
    \/ DeleteTimeslots(p, load)
    \/ MergeTimeslots(p, load)

\* a handler in flight goes on after an await
Resume(p) ==
    \/ SaveCreated(p)
    \/ UpdateEach(p)
    \/ SaveUpdated(p)
    \/ DeleteChecked(p)
    \/ MergeSave(p)
    \/ MergeRemove(p)
    \/ Return(p)

\* The service as it runs: handlers interleave at their awaits.
Next == \E p \in Procs : Arrive(p, ConcurrentLoad) \/ Resume(p)

Spec == Init /\ [][Next]_vars

(* ------------------ one call on a table that has rows ------------------ *)
\* The service starts on the database file as earlier runs left it.  A
\* table of n rows with the keys 1..n, each row drawn from rows[id]:
Tables(rows) ==
    UNION {{t \in [1..n -> UNION {rows[id] : id \in 1..n}] :
                \A id \in 1..n : t[id] \in rows[id]} : n \in 0..MaxBatch}

InitOn(tables) ==
    /\ store \in tables
    /\ nextId = Len(store) + 1
    /\ pc = [p \in Procs |-> "idle"]
    /\ call = [p \in Procs |-> NoCall]
    /\ snapshot = [p \in Procs |-> <<>>]
    /\ work = [p \in Procs |-> <<>>]
    /\ pending = [p \in Procs |-> {}]
    /\ result = [p \in Procs |-> Pending]
    /\ calls = 0
    /\ base = NoDb
    /\ since = 0
    /\ events = <<>>
    /\ unsent = <<>>
    /\ TelegramInit

\* rows as addTimeslots stores them, in either project, locked or not, for
\* user 1 by itself or for user 2 by user 1
OwnedRows ==
    [id \in 1..MaxBatch |->
        {Slot(id, pr, u[1], u[2], locked,
              IF id = 1 THEN "available" ELSE "busy", 1, MaxTime,
              IF id = 1 THEN "x" ELSE "",
              IF id = 1 THEN "#000000" ELSE getColorForId(u[1])) :
            pr \in Projects, u \in {<<1, 1>>, <<2, 1>>}, locked \in BOOLEAN}]

\* every call the gateway and the tool calls can pass on: ids that resolve
\* and ids that do not, repeated ids, no ids at all, either project, any
\* requester
FullLoad ==
    LET ids == {<<>>} \cup Batches(Ids) IN
    Load(AddCalls(RequestProjectIds,
                  {<<1, <<>>>>, <<2, <<1>>>>, <<4, <<>>>>, <<1, <<4>>>>, <<11, <<>>>>},
                  {<<>>} \cup Batches(AddItems \cup OddAddItems)),
         UpdateCallsOf(Projects, RequestUserIds, ids,
                       UpdateItems(NoId) \cup OtherUpdateItems(NoId)),
         DeleteCalls(Projects, RequestUserIds, ids),
         MergeCalls(Projects, RequestUserIds, ids, {<<>>}),
         ReadCalls(Projects, Users))

\* one call, whichever, run from its arrival to its return with no other
\* handler in flight
CallInit == InitOn(Tables(OwnedRows))
CallNext == (calls = 0 /\ Arrive(1, FullLoad)) \/ Resume(1)
CallSpec == CallInit /\ [][CallNext]_vars

(* -------------------- one merge on a table of any rows ----------------- *)
\* rows of project 1 with every start, end, status and lock, for user 1 or 2
DatedRows ==
    [id \in 1..MaxBatch |->
        {Slot(id, 1, u, u, locked, status, startTime, endTime, notes, getColorForId(u)) :
            u \in {1, 2}, locked \in BOOLEAN, status \in Status,
            startTime \in 1..MaxTime, endTime \in 1..MaxTime,
            notes \in {"", IF id = 1 THEN "x" ELSE "y"}}]

MergeLoad ==
    Load({}, {}, {},
         MergeCalls({1}, {1}, Distinct(Batches(1..MaxBatch)), {<<>>, <<"">>, <<"m">>}),
         {})

MergeInit == InitOn(Tables(DatedRows))
MergeNext ==
    \/ calls = 0 /\ MergeTimeslots(1, MergeLoad)
    \/ MergeSave(1)
    \/ MergeRemove(1)
    \/ Return(1)
MergeSpec == MergeInit /\ [][MergeNext]_vars

(* ------------------------ a client adds, then reads -------------------- *)
RoundTripLoad ==
    Load(AddCalls(Projects, {<<1, <<>>>>, <<2, <<1>>>>}, Batches(AddItems)),
         {}, {}, {},
         ReadCalls(Projects, {1, 2}))

\* The client of handler 1 adds and, once it holds the result, reads as
\* often as it likes through handler 2.
RoundTripInit == InitOn(Tables(OwnedRows))
RoundTripNext ==
    \/ calls = 0 /\ AddTimeslots(1, RoundTripLoad)
    \/ SaveCreated(1)
    \/ pc[1] = "done" /\ GetUserTimeSlots(2, RoundTripLoad)
    \/ Return(2)
RoundTripSpec == RoundTripInit /\ [][RoundTripNext]_vars

(* --------------------- the service behind the gateway ------------------ *)
\* rows of user 1, unlocked, in either project
PlainRows ==
    [id \in 1..MaxBatch |->
        {Slot(id, pr, 1, 1, FALSE, "available", 1, MaxTime, "", getColorForId(1)) :
            pr \in Projects}]

\* calls of user 1 that come in through the gateway, and a tool call
GatewayLoad ==
    LET item == CHOOSE it \in AddItems : ~Has(it.isLocked) IN
    Load(ByGateway(AddCalls(Projects, {<<1, <<>>>>}, {<<item>>})),
         ByGateway(UpdateCalls({1}, {1}, {<<1>>})),
         ByGateway(DeleteCalls(Projects, {1}, {<<1>>}))
            \cup DeleteCalls({1}, {1}, {<<1>>}),
         ByGateway(MergeCalls({1}, {1}, {<<1>>}, {<<>>})),
         ByGateway(ReadCalls({1}, {1})))

GatewayInit == InitOn(Tables(PlainRows))
GatewayNext == \E p \in Procs : Arrive(p, GatewayLoad) \/ Resume(p) \/ Notify(p)
GatewaySpec == GatewayInit /\ [][GatewayNext]_vars

(* ------------------- one batch on a database that fails --------------- *)
FailLoad ==
    Load(AddCalls({1}, {<<1, <<>>>>}, Batches(AddItems)),
         UpdateCalls({1}, {1}, Distinct(Batches(1..MaxBatch))),
         {}, {}, {})

\* one add or update, alone, any of whose saves the database may reject
FailInit == InitOn(Tables(PlainRows))
FailNext ==
    \/ calls = 0 /\ AddTimeslots(1, FailLoad)
    \/ calls = 0 /\ UpdateTimeslots(1, FailLoad)
    \/ SaveCreated(1)
    \/ UpdateEach(1)
    \/ SaveUpdated(1)
    \/ SaveFails(1)
    \/ Return(1)
FailSpec == FailInit /\ [][FailNext]_vars

(* ------------------ one update that comes in by the gateway ------------ *)
GatewayUpdateLoad ==
    Load({}, ByGateway(UpdateCalls(Projects, {1, 3}, Distinct(Batches(1..MaxBatch)))),
         {}, {}, {})

\* one project_update_timeslots message, alone, from its arrival to the
\* answer of its handler
GatewayUpdateInit == InitOn(Tables(OwnedRows))
GatewayUpdateNext ==
    \/ calls = 0 /\ UpdateTimeslots(1, GatewayUpdateLoad)
    \/ UpdateEach(1)
    \/ SaveUpdated(1)
    \/ Notify(1)
    \/ Return(1)
GatewayUpdateSpec == GatewayUpdateInit /\ [][GatewayUpdateNext]_vars

(* ----------------------- calls one after the other -------------------- *)
\* TelegramService, bot.action(/lock_timeslot:(\d+)/) and
\* bot.action(/unlock_timeslot:(\d+)/): the user who pressed the button sets
\* isLocked of the slot if that user created it.  The handler is taken in
\* one piece: no other handler runs in this specification while it does.
SetLocked(p, locked) ==
    \E id \in Ids, u \in Users :
        /\ CanStart(p)
        /\ Begin(p, Call(IF locked THEN "lock" ELSE "unlock", 0, u,
                         <<>>, <<id>>, <<>>, <<>>))
        /\ IF id \in DOMAIN store /\ store[id].createdBy = u
              THEN /\ store' = [store EXCEPT ![id].isLocked = locked]
                   /\ Finish(p, Success(<<store'[id]>>, 0))
              ELSE /\ UNCHANGED store
                   /\ Finish(p, Failure("Forbidden", <<id>>))
        /\ UNCHANGED <<nextId, snapshot, work, pending>>
        /\ UNCHANGED telegram

\* what users 1, 2 and 3 do to the slots of users 1 and 2
SequenceLoad ==
    LET item == CHOOSE it \in AddItems : Has(it.isLocked) IN
    Load(AddCalls({1}, {<<2, <<1>>>>}, {<<item>>}),
         UpdateCalls(Projects, {1, 2, 3}, Distinct(Batches(1..MaxBatch))),
         DeleteCalls({1}, {3}, {<<1>>}),
         MergeCalls({1}, {2}, {<<1>>}, {<<>>}),
         ReadCalls({1}, {1}))

\* One handler: a call arrives when the call before it has returned.
SequenceInit == InitOn(Tables(OwnedRows))
SequenceNext ==
    \/ Arrive(1, SequenceLoad)
    \/ Resume(1)
    \/ SetLocked(1, TRUE)
    \/ SetLocked(1, FALSE)
SequenceSpec == SequenceInit /\ [][SequenceNext]_vars

(* ---------------- one message that names its user, or not ------------- *)
\* messages of every operation with and without requestUserId and
\* requestUserTelegramId; 104 is the Telegram id of nobody
Messages ==
    {Message(op, 1, u, t, ids, <<>>, <<>>) :
        op \in {"delete", "merge"}, u \in {0, 1, 3}, t \in {0, 101, 103, 104},
        ids \in {<<1>>, <<1, 2>>}}
    \cup {[c EXCEPT !.requestUserId = u, !.requestUserTelegramId = t, !.userId = 0] :
            c \in ByGateway(UpdateCalls({1}, {0}, {<<1>>, <<1, 2>>})),
            u \in {0, 1, 3}, t \in {0, 101, 103, 104}}

GatewayRequestInit == InitOn(Tables(OwnedRows))
GatewayRequestNext ==
    \/ calls = 0 /\ GatewayRequest(1, Messages)
    \/ UpdateEach(1)
    \/ SaveUpdated(1)
    \/ DeleteChecked(1)
    \/ MergeSave(1)
    \/ MergeRemove(1)
    \/ Notify(1)
    \/ Return(1)
GatewayRequestSpec == GatewayRequestInit /\ [][GatewayRequestNext]_vars

(* ------------------------ the Telegram handlers ------------------------ *)
\* An update arrives at a free handler.
Takes(b, limit) == handler[b].pc = "idle" /\ updates < limit

Goes(b, to) == handler' = [handler EXCEPT ![b].pc = to]

Ends(b) == handler' = [handler EXCEPT ![b] = NoHandler]

\* `this.userStateMap.set(tgUser.id, { ...userState, state: IN_PROJECT })`
Resets(b) ==
    userStates' = [userStates EXCEPT ![handler[b].tgUser] = ResetState(handler[b].userState)]

\* handleUserMessage (kind "text") and handleVoiceMessage (kind "voice") up
\* to the await of sendChatAction, or of showProjectList when the user is
\* not in a project
HandleMessage(b, kind, limit) ==
    \E tgUser \in TgUsers :
        LET userState == GetUserState(tgUser) IN
        /\ Takes(b, limit)
        /\ updates' = updates + 1
        /\ handler' = [handler EXCEPT ![b] =
                [NoHandler EXCEPT !.pc = IF IsInProject(userState) THEN "typing" ELSE "list",
                                  !.kind = kind, !.tgUser = tgUser,
                                  !.userState = userState, !.number = updates + 1]]
        /\ UNCHANGED <<userStates, selected, conversationContexts, said>>
        /\ UNCHANGED service

HandleUserMessage(b, limit) == HandleMessage(b, "text", limit)

HandleVoiceMessage(b, limit) == HandleMessage(b, "voice", limit)

\* sendChatAction is over: the state becomes PROCESSING_MESSAGE; when it
\* threw, the handler is over
SetProcessing(b) ==
    /\ handler[b].pc = "typing"
    /\ \/ /\ userStates' = [userStates EXCEPT ![handler[b].tgUser] =
                [handler[b].userState EXCEPT !.state = "processing_message"]]
          /\ Goes(b, "lookup")
       \/ /\ Ends(b)
          /\ UNCHANGED userStates
    /\ UNCHANGED <<selected, conversationContexts, said, updates>>
    /\ UNCHANGED service

\* the catch block: handleVoiceMessage resets the state and then replies,
\* handleUserMessage replies and then resets the state
Catches(b) ==
    /\ Goes(b, "sorry")
    /\ IF handler[b].kind = "voice" THEN Resets(b) ELSE UNCHANGED userStates

\* The awaits of the try block up to the call of processMessage: the voice
\* file and its transcription, the project.  processMessage begins with a
\* copy of the stored history and the user's message.
Lookup(b) ==
    /\ handler[b].pc = "lookup"
    /\ \/ Catches(b)
       \/ /\ \/ handler[b].kind = "voice"
             \/ handler[b].userState.currentProjectId \notin Projects
          /\ Goes(b, "missing")
          /\ UNCHANGED userStates
       \/ /\ handler[b].userState.currentProjectId \in Projects
          /\ handler' = [handler EXCEPT
                ![b].pc = "ai",
                ![b].conversationHistory =
                    Append(conversationContexts[handler[b].userState.currentProjectId],
                           ChatMessage("user", handler[b].number * PerUpdate, <<>>, 0))]
          /\ UNCHANGED userStates
    /\ UNCHANGED <<selected, conversationContexts, said, updates>>
    /\ UNCHANGED service

\* `await ctx.reply(...)` of cannotTranscribe or projectNotFound is over:
\* handleVoiceMessage resets the state and returns, handleUserMessage
\* returns
Missing(b) ==
    /\ handler[b].pc = "missing"
    /\ \/ Catches(b)
       \/ /\ Ends(b)
          /\ IF handler[b].kind = "voice" THEN Resets(b) ELSE UNCHANGED userStates
    /\ UNCHANGED <<selected, conversationContexts, said, updates>>
    /\ UNCHANGED service

\* processMessage is over: with an answer of toolCalls tool calls it has
\* stored the history, with an exception it has stored nothing
ProcessMessage(b, toolCalls) ==
    /\ handler[b].pc = "ai"
    /\ Goes(b, "answer")
    /\ LET contextId == handler[b].userState.currentProjectId IN
       \/ UNCHANGED <<conversationContexts, said>>
       \/ \E k \in toolCalls :
            LET answer == Answer(handler[b].number, k)
                conversationHistory == handler[b].conversationHistory \o answer
            IN  /\ conversationContexts' = [conversationContexts EXCEPT
                        ![contextId] = updateConversationContext(conversationHistory)]
                /\ said' = [said EXCEPT ![contextId] =
                        @ \o <<conversationHistory[Len(handler[b].conversationHistory)]>>
                          \o answer]
    /\ UNCHANGED <<userStates, selected, updates>>
    /\ UNCHANGED service

\* the reaction or the reply is out: the state is reset
Answered(b) ==
    /\ handler[b].pc = "answer"
    /\ \/ Catches(b)
       \/ Ends(b) /\ Resets(b)
    /\ UNCHANGED <<selected, conversationContexts, said, updates>>
    /\ UNCHANGED service

\* the reply of the catch block is over, or it threw
Sorry(b) ==
    /\ handler[b].pc = "sorry"
    /\ Ends(b)
    /\ \/ handler[b].kind = "text" /\ Resets(b)
       \/ UNCHANGED userStates
    /\ UNCHANGED <<selected, conversationContexts, said, updates>>
    /\ UNCHANGED service

\* a message handler of the user has taken its copy of the state and has
\* not written it back yet
Processing(tgUser) ==
    {b \in Handlers : /\ handler[b].tgUser = tgUser
                      /\ handler[b].kind \in {"text", "voice"}
                      /\ handler[b].pc \in {"typing", "lookup", "missing", "ai", "answer", "sorry"}}

\* handleProjectSelection up to the await of the project
HandleProjectSelection(b, limit) ==
    \E tgUser \in TgUsers, projectId \in RequestProjectIds :
        /\ Takes(b, limit)
        /\ updates' = updates + 1
        /\ handler' = [handler EXCEPT ![b] =
                [NoHandler EXCEPT !.pc = "project", !.kind = "select", !.tgUser = tgUser,
                                  !.projectId = projectId, !.number = updates + 1]]
        /\ userStates' = [userStates EXCEPT ![tgUser] = UserStateData("in_project", projectId)]
        /\ selected' = [selected EXCEPT ![tgUser] =
                [projectId |-> projectId, during |-> Processing(tgUser) # {}]]
        /\ UNCHANGED <<conversationContexts, said>>
        /\ UNCHANGED service

\* the project is there and is displayed, or it is not and the list of
\* projects follows
ProjectShown(b) ==
    /\ handler[b].pc = "project"
    /\ IF handler[b].projectId \in Projects THEN Ends(b) ELSE Goes(b, "list")
    /\ UNCHANGED <<userStates, selected, conversationContexts, said, updates>>
    /\ UNCHANGED service

\* showProjectList, for a user that has projects
ShowProjectList(b) ==
    /\ handler[b].pc = "list"
    /\ Ends(b)
    /\ userStates' = [userStates EXCEPT ![handler[b].tgUser] =
            UserStateData("awaiting_project_selection", 0)]
    /\ selected' = [selected EXCEPT ![handler[b].tgUser] = [projectId |-> 0, during |-> FALSE]]
    /\ UNCHANGED <<conversationContexts, said, updates>>
    /\ UNCHANGED service

\* a Telegram update arrives
Update(b, limit) ==
    \/ HandleUserMessage(b, limit)
    \/ HandleVoiceMessage(b, limit)
    \/ HandleProjectSelection(b, limit)

\* a handler in flight goes on after an await
Continue(b, toolCalls) ==
    \/ SetProcessing(b)
    \/ Lookup(b)
    \/ Missing(b)
    \/ ProcessMessage(b, toolCalls)
    \/ Answered(b)
    \/ Sorry(b)
    \/ ProjectShown(b)
    \/ ShowProjectList(b)

\* The bot as it runs: the handlers of the updates interleave at their
\* awaits.
TelegramNext == \E b \in Handlers : Update(b, MaxUpdates) \/ Continue(b, {0, 1})
TelegramSpec == Init /\ [][TelegramNext]_vars

\* One update after the other: a conversation.
ConversationNext == Update(1, MaxUpdates) \/ Continue(1, 0..MaxToolCalls)
ConversationSpec == Init /\ [][ConversationNext]_vars

(* ------------------- one call run alone on the table ------------------- *)
RECURSIVE SaveRows(_, _)
SaveRows(st, entities) ==
    IF entities = <<>> THEN st
    ELSE SaveRows(SaveRow(st, setDefaultColor(Head(entities))), Tail(entities))

\* the table after updateTimeslots, deleteTimeslots or mergeTimeslots has
\* run from its find to its return with no other handler in between, for
\* the rows its find returned
AloneOn(c, db, found) ==
    IF \/ ~AllFound(found, c.ids)
       \/ InvalidTimeslots(found, c.projectId) # <<>>
       \/ ~UserExists(c.userId)
       THEN db
    ELSE IF c.op = "update"
       THEN Db(SaveRows(db.store, UpdatedEntities(found, c.items, c.userId)), db.nextId)
    ELSE IF RefusedSlots(found, c.userId) # <<>> \/ found = <<>>
       THEN db
    ELSE IF c.op = "delete"
       THEN Db(DeleteRows(db.store, Range(c.ids)), db.nextId)
    ELSE Db(DeleteRows(SaveRow(db.store, setDefaultColor(
                    [MergedSlot(found, c.userId, c.mergedNotes) EXCEPT !.id = db.nextId])),
               Range(IdsOf(found))),
            db.nextId + 1)

Alone(c, db) == {AloneOn(c, db, found) : found \in FindByIds(db.store, c.ids)}

\* the tables that running the calls of the handlers in `order`, one after
\* the other, can leave
RECURSIVE InOrder(_, _)
InOrder(dbs, order) ==
    IF order = <<>> THEN dbs
    ELSE InOrder(UNION {Alone(call[Head(order)], db) : db \in dbs}, Tail(order))

Finished == {p \in Procs : pc[p] = "done"}
InFlight == {p \in Procs : pc[p] \in {"user", "saving", "remove"}}
Mutating(p) == call[p].op \in {"update", "delete", "merge"}

(* ------------------------------ claims --------------------------------- *)

\* C1: UpdateTimeslots is atomic with respect to authorization: when a slot
\* of the batch is locked and the requester is neither its createdBy nor its
\* user, the call fails and no step of the call changes a slot of the batch
\* in the store.
UpdateRefusedWritesNothing ==
    [][\A p \in Procs :
        (/\ call[p].op = "update"
         /\ pc[p] \in {"user", "saving"}
         /\ call[p].userId \in Users
         /\ \E i \in DOMAIN snapshot[p] : CannotModify(snapshot[p][i], call[p].userId))
        => /\ result'[p].returned => ~result'[p].success
           /\ pending'[p] # pending[p] =>
                \A id \in Range(call[p].ids) \cap DOMAIN store :
                    id \in DOMAIN store' /\ store'[id] = store[id]]_vars

\* C2: a read that runs while a merge is in flight sees either every
\* original (of the user and project it asks for) and no merged slot, or the
\* merged slot and no original.
ReadSeesMergeWhole ==
    [][\A q \in Procs : \A p \in Procs \ {q} :
        (/\ pc[q] = "idle" /\ call'[q].op = "read"
         /\ call[p].op = "merge" /\ pc[p] \in {"user", "remove"})
        => LET seen == Range(IdsOf(result'[q].timeslots))
               originals == {slot.id : slot \in
                                {o \in Range(snapshot[p]) :
                                    /\ o.user = call'[q].userId
                                    /\ o.project = call'[q].projectId}}
               merged == IF pc[p] = "remove" THEN {work[p][1].id} ELSE {}
           IN  \/ originals \subseteq seen /\ merged \cap seen = {}
               \/ merged # {} /\ merged \subseteq seen /\ originals \cap seen = {}]_vars

\* C3: batch operations are linearizable: when update, delete and merge
\* calls that overlapped in time have all returned, the table is one that
\* some serial order of those calls leaves.
BatchesLinearizable ==
    (/\ InFlight = {}
     /\ Finished # {}
     /\ since = Cardinality(Finished)
     /\ \A p \in Finished : Mutating(p))
    => Db(store, nextId) \in UNION {InOrder({base}, order) : order \in Perms(Finished)}

\* this step commits a write to, or the removal of, the row id by handler p
Commits(p, id) ==
    \/ /\ call[p].op = "update" /\ pc[p] = "saving"
       /\ \E k \in pending[p] \ pending'[p] : work[p][k].id = id
    \/ /\ call[p].op = "delete" /\ pc[p] = "user"
       /\ result'[p].success /\ id \in Range(call[p].ids)
    \/ /\ call[p].op = "merge" /\ pc[p] = "remove" /\ pc'[p] = "done"
       /\ id \in Range(IdsOf(snapshot[p]))

\* C4: lock protection under every interleaving: a write to or removal of a
\* row that is locked in the store is committed only for a request of the
\* row's createdBy or user.
LockedRowsOnlyOwnersWrite ==
    [][\A p \in Procs : \A id \in DOMAIN store :
        (Commits(p, id) /\ store[id].isLocked)
        => call[p].userId \in {store[id].createdBy, store[id].user}]_vars

(* ------------- claims about one call (CallSpec, MergeSpec) ------------- *)
\* the rule of the specification: who may mutate a slot
CanMutate(slot, requestUserId) ==
    \/ ~slot.isLocked
    \/ slot.createdBy = requestUserId
    \/ slot.user = requestUserId

NamesOnce(ids) == \A i, j \in DOMAIN ids : i # j => ids[i] # ids[j]

\* the rows of the table, as the call found it, that the batch names
Targets(p) == {base.store[id] : id \in Range(call[p].ids) \cap DOMAIN base.store}

Returned(p) == pc[p] = "done" /\ result[p].returned

\* the batch of the claim: every id exists in the stated project and the
\* requester exists
InProject(p) ==
    /\ Range(call[p].ids) \subseteq DOMAIN base.store
    /\ \A slot \in Targets(p) : slot.project = call[p].projectId
    /\ call[p].userId \in Users

\* C5: an update, delete or merge whose ids all exist in the stated project
\* and whose requester exists succeeds if and only if every targeted slot is
\* unlocked or has the requester as createdBy or as user.
AuthorizedIffCanMutate ==
    \A p \in Procs :
        (Returned(p) /\ Mutating(p) /\ InProject(p))
        => (result[p].success <=>
                \A slot \in Targets(p) : CanMutate(slot, call[p].userId))

\* the same, for the batches that name each id once
AuthorizedWhenNamedOnce ==
    \A p \in Procs :
        (Returned(p) /\ Mutating(p) /\ InProject(p) /\ NamesOnce(call[p].ids))
        => (result[p].success <=>
                \A slot \in Targets(p) : CanMutate(slot, call[p].userId))

\* C6: when an id of an update, delete or merge is not in the store, the
\* call fails and leaves the table as it found it.
MissingIdChangesNothing ==
    \A p \in Procs :
        (/\ Returned(p) /\ Mutating(p)
         /\ \E id \in Range(call[p].ids) : id \notin DOMAIN base.store)
        => /\ ~result[p].success
           /\ Db(store, nextId) = base

WitnessMissingId ==
    \E p \in Procs :
        /\ Returned(p) /\ Mutating(p)
        /\ \E id \in Range(call[p].ids) : id \notin DOMAIN base.store
        /\ Targets(p) # {}
        /\ \A slot \in Targets(p) : CanMutate(slot, call[p].userId)

\* the ids of the batch whose slot is in another project than the stated one
Foreign(p) == {slot.id : slot \in {t \in Targets(p) : t.project # call[p].projectId}}

\* C7 as stated: when an id of an update, delete or merge resolves to a slot
\* of another project, the call fails naming exactly those ids and leaves
\* the table as it found it.
ForeignIdsNamed ==
    \A p \in Procs :
        (Returned(p) /\ Mutating(p) /\ Foreign(p) # {})
        => /\ ~result[p].success
           /\ result[p].error = "WrongProject"
           /\ Range(result[p].ids) = Foreign(p)
           /\ Db(store, nextId) = base

\* C7 as amended: ... the call fails and leaves the table as it found it,
\* and unless the existence check has rejected the batch as not found, the
\* failure is the cross-project one and names exactly those ids.
ForeignIdsNamedUnlessNotFound ==
    \A p \in Procs :
        (Returned(p) /\ Mutating(p) /\ Foreign(p) # {})
        => /\ ~result[p].success
           /\ Db(store, nextId) = base
           /\ result[p].error # "NotFound"
                => /\ result[p].error = "WrongProject"
                   /\ Range(result[p].ids) = Foreign(p)

WitnessForeignIds ==
    \E p \in Procs :
        /\ Returned(p) /\ Mutating(p)
        /\ result[p].error = "WrongProject"
        /\ Len(call[p].ids) = 2
        /\ Cardinality(Foreign(p)) = 1
        /\ Range(result[p].ids) = Foreign(p)

\* C8: a delete whose batch holds a locked slot that the requester neither
\* created nor is the user of fails and removes nothing; a delete that
\* succeeds removes every named slot and counts as many as were named.
DeleteAllOrNothing ==
    \A p \in Procs :
        (Returned(p) /\ call[p].op = "delete")
        => /\ (\E slot \in Targets(p) :
                    /\ slot.isLocked
                    /\ slot.createdBy # call[p].userId
                    /\ slot.user # call[p].userId)
                => /\ ~result[p].success
                   /\ \A slot \in Targets(p) :
                        slot.id \in DOMAIN store /\ store[slot.id] = slot
           /\ result[p].success
                => /\ Range(call[p].ids) \cap DOMAIN store = {}
                   /\ result[p].deletedCount = Len(call[p].ids)

WitnessDeleteRefused ==
    \E p \in Procs :
        /\ Returned(p) /\ call[p].op = "delete"
        /\ result[p].error = "Forbidden"
        /\ \E slot \in Targets(p) : ~slot.isLocked /\ slot.id \in DOMAIN store
        /\ \E slot \in Targets(p) : slot.isLocked

\* the merged slot, once mergeTimeslots has saved it
Merged(p) == work[p][1]
HasMerged(p) == call[p].op = "merge" /\ pc[p] \in {"remove", "done"} /\ work[p] # <<>>
Inputs(p) == Range(snapshot[p])
Earliest(p) == {slot \in Inputs(p) : \A o \in Inputs(p) : slot.startTime <= o.startTime}

\* C9: the merged slot has the status and the user of an input slot with the
\* earliest startTime, in whatever order the store returned the slots.
MergedTakesEarliest ==
    \A p \in Procs :
        HasMerged(p)
        => \E slot \in Earliest(p) :
              Merged(p).status = slot.status /\ Merged(p).user = slot.user

\* C10: the merged slot starts at the least startTime and ends at the
\* greatest endTime of the input slots.
MergedSpansInputs ==
    \A p \in Procs :
        HasMerged(p)
        => /\ \E slot \in Inputs(p) : Merged(p).startTime = slot.startTime
           /\ \A slot \in Inputs(p) : Merged(p).startTime <= slot.startTime
           /\ \E slot \in Inputs(p) : Merged(p).endTime = slot.endTime
           /\ \A slot \in Inputs(p) : Merged(p).endTime >= slot.endTime

\* the store returned the later slot first, and the slot that starts first
\* is the one that ends last
WitnessMergedSpan ==
    \E p \in Procs :
        /\ HasMerged(p) /\ pc[p] = "done" /\ result[p].success
        /\ Len(snapshot[p]) = 2
        /\ snapshot[p][1].startTime > snapshot[p][2].startTime
        /\ snapshot[p][1].endTime < snapshot[p][2].endTime
        /\ Merged(p).startTime = snapshot[p][2].startTime
        /\ Merged(p).endTime = snapshot[p][2].endTime

\* the strings joined with "; "
RECURSIVE Joined(_)
Joined(strs) ==
    IF strs = <<>> THEN ""
    ELSE IF Len(strs) = 1 THEN strs[1]
    ELSE strs[1] \o "; " \o Joined(Tail(strs))

\* the non-empty notes of the input slots, in the ascending orders of startTime
NotesByStart(p) ==
    {Joined(SelectSeq([i \in DOMAIN f |-> f[i].notes], LAMBDA n : n # "")) :
        f \in {g \in Perms(Inputs(p)) :
                 \A i, j \in DOMAIN g : i < j => g[i].startTime <= g[j].startTime}}

\* C11: the notes of the merged slot are the explicit mergedNotes when the
\* call provides them, and otherwise the non-empty notes of the input slots
\* joined with "; " in ascending startTime order.
MergedNotesAsProvided ==
    \A p \in Procs :
        HasMerged(p)
        => IF Has(call[p].mergedNotes)
              THEN Merged(p).notes = Val(call[p].mergedNotes)
              ELSE Merged(p).notes \in NotesByStart(p)

\* the same, with an empty mergedNotes counted as not provided
MergedNotesUnlessEmpty ==
    \A p \in Procs :
        HasMerged(p)
        => IF Has(call[p].mergedNotes) /\ Val(call[p].mergedNotes) # ""
              THEN Merged(p).notes = Val(call[p].mergedNotes)
              ELSE Merged(p).notes \in NotesByStart(p)

\* C12: the merged slot is locked if and only if an input slot was locked.
MergedLockedIffAnyInput ==
    \A p \in Procs :
        HasMerged(p)
        => (Merged(p).isLocked <=> \E slot \in Inputs(p) : slot.isLocked)

\* the store returned an unlocked slot first and a locked one after it
WitnessMergedLocked ==
    \E p \in Procs :
        /\ HasMerged(p) /\ pc[p] = "done" /\ result[p].success
        /\ Len(snapshot[p]) = 2
        /\ ~snapshot[p][1].isLocked /\ snapshot[p][2].isLocked
        /\ snapshot[p][1].startTime < snapshot[p][2].startTime
        /\ Merged(p).isLocked

\* the rows of the project in a table
InProjectOf(st, projectId) == {i \in DOMAIN st : st[i].project = projectId}

\* C13: a successful merge of n >= 1 slots creates exactly one new slot, in
\* the stated project, and removes the n originals: no supplied id exists
\* afterwards, one record is returned, and the project holds n - 1 slots
\* fewer than before.
MergeReplacesInputsByOne ==
    \A p \in Procs :
        (Returned(p) /\ call[p].op = "merge" /\ result[p].success)
        => /\ Range(call[p].ids) \cap DOMAIN store = {}
           /\ Len(result[p].timeslots) = 1
           /\ DOMAIN store \ DOMAIN base.store = {result[p].timeslots[1].id}
           /\ store[result[p].timeslots[1].id] = result[p].timeslots[1]
           /\ result[p].timeslots[1].project = call[p].projectId
           /\ Cardinality(InProjectOf(store, call[p].projectId))
                = Cardinality(InProjectOf(base.store, call[p].projectId))
                    - Len(call[p].ids) + 1

\* two slots were merged while the project held them both
WitnessMergeOfTwo ==
    \E p \in Procs :
        /\ Returned(p) /\ call[p].op = "merge" /\ result[p].success
        /\ Len(call[p].ids) = 2
        /\ Cardinality(InProjectOf(store, call[p].projectId)) = 1

\* C14: the createdBy of the merged slot is the requester, so the permission
\* check lets the requester modify the stored merged slot, locked or not.
MergedCreatedByRequester ==
    \A p \in Procs :
        HasMerged(p)
        => /\ Merged(p).createdBy = call[p].userId
           /\ Merged(p).id \in DOMAIN store
                => ~CannotModify(store[Merged(p).id], call[p].userId)

\* the merged slot is locked and is another user's slot
WitnessMergedForOther ==
    \E p \in Procs :
        /\ HasMerged(p) /\ pc[p] = "done" /\ result[p].success
        /\ Merged(p).id \in DOMAIN store
        /\ store[Merged(p).id].isLocked
        /\ store[Merged(p).id].user # call[p].userId

\* the fields of a merged record that the merge computes
Computed(slot) ==
    <<slot.startTime, slot.endTime, slot.status, slot.user, slot.notes, slot.isLocked>>

\* C15: merge is order-independent: the merged record is the one the merge
\* computes for every order in which the store can return the input slots.
MergeOrderIndependent ==
    \A p \in Procs :
        HasMerged(p)
        => \A found \in Perms(Inputs(p)) :
              Computed(MergedSlot(found, call[p].userId, call[p].mergedNotes))
                = Computed(Merged(p))

(* ----------------------- claims about the events ----------------------- *)
\* this step hands the result of handler p back to its caller
Replies(p) == pc[p] = "done" /\ pc'[p] # "done"

Succeeded(p) == result[p].success /\ call[p].op \in {"add", "update", "delete", "merge"}

\* C16: every successful add, update, delete or merge emits exactly one
\* timeslots_updated event that carries the projectId, and the userId only
\* for add, whichever way the call came in.
MutationEmitsOneEvent ==
    [][\A p \in Procs :
        (Replies(p) /\ Succeeded(p))
        => events' = Append(events,
                [projectId |-> call[p].projectId,
                 userId |-> IF call[p].op = "add" THEN <<call[p].userId>> ELSE <<>>])]_vars

\* the handlers that committed a mutation of the project of p before p did
\* and whose event is not out
CommittedBefore(p) ==
    {unsent[i] : i \in {j \in DOMAIN unsent :
        /\ \E k \in DOMAIN unsent : k > j /\ unsent[k] = p
        /\ call[unsent[j]].projectId = call[p].projectId}}

\* C17: the events of one project are emitted in the order in which the
\* mutations were committed: a handler emits only when every mutation of
\* the project committed before its own has had its event emitted.
EventsInCommitOrder ==
    [][\A p \in Procs :
        (Replies(p) /\ events' # events) => CommittedBefore(p) = {}]_vars

\* C18: when the emit after a successful mutation fails, the mutation stays
\* committed and the requester still receives the success result.
EmitFailureSwallowed ==
    [][\A p \in Procs :
        (Replies(p) /\ Succeeded(p) /\ call[p].via = "gateway" /\ events' = events)
        => store' = store /\ result'[p].success]_vars

(* ------------------------- claims about adding ------------------------- *)
\* the call names a project, a user or a distinct creator that does not exist
Unresolved(c) ==
    \/ c.projectId \notin Projects
    \/ c.userId \notin Users
    \/ /\ c.createdById # <<>>
       /\ c.createdById[1] # c.userId
       /\ c.createdById[1] \notin Users

\* C19: addTimeslots validates before writing: when the project, the user
\* or a distinct createdById does not resolve, the call fails and no slot of
\* the batch is persisted.
AddValidatesBeforeWriting ==
    \A p \in Procs :
        (call[p].op = "add" /\ Unresolved(call[p]))
        => /\ store = base.store
           /\ Returned(p) /\ ~result[p].success

\* the user resolves and the creator does not
WitnessAddCreatorMissing ==
    \E p \in Procs :
        /\ Returned(p) /\ call[p].op = "add"
        /\ call[p].projectId \in Projects /\ call[p].userId \in Users
        /\ Unresolved(call[p])
        /\ Len(call[p].items) = 2

\* C20: a successful addTimeslots creates one slot per item, each with the
\* given user and project, createdBy = createdById when supplied and the
\* user otherwise, and isLocked false unless the item sets it.
AddCreatesAsGiven ==
    \A p \in Procs :
        (Returned(p) /\ call[p].op = "add" /\ result[p].success)
        => LET c == call[p]
               made == result[p].timeslots
           IN  /\ Len(made) = Len(c.items)
               /\ Cardinality(DOMAIN store \ DOMAIN base.store) = Len(c.items)
               /\ {made[i].id : i \in DOMAIN made} = DOMAIN store \ DOMAIN base.store
               /\ \A i \in DOMAIN made :
                    /\ store[made[i].id] = made[i]
                    /\ made[i].user = c.userId
                    /\ made[i].project = c.projectId
                    /\ made[i].createdBy =
                         IF c.createdById # <<>> THEN c.createdById[1] ELSE c.userId
                    /\ made[i].isLocked =
                         IF c.items[i].isLocked # <<>> THEN c.items[i].isLocked[1] ELSE FALSE

\* two slots were created for a user by another one, one locked, one not
WitnessAddedForOther ==
    \E p \in Procs :
        /\ Returned(p) /\ call[p].op = "add" /\ result[p].success
        /\ call[p].createdById # <<>> /\ call[p].createdById[1] # call[p].userId
        /\ Len(result[p].timeslots) = 2
        /\ result[p].timeslots[1].isLocked /\ ~result[p].timeslots[2].isLocked

(* ----------------------- claims about the color ------------------------ *)
\* the color the call gives for the slot it saved as made[i]; "" when it
\* gives none
GivenColor(p, i) ==
    LET c == call[p] IN
    IF c.op = "add"
       THEN IF c.items[i].color # <<>> THEN c.items[i].color[1] ELSE ""
    ELSE IF c.op = "update"
       THEN IF c.items[i].color # <<>> THEN c.items[i].color[1]
            ELSE base.store[c.items[i].id].color
    ELSE ""

\* C21: a slot persisted without a color has the color
\* PRESET_COLORS[user.id mod palette size] of its user, the same for users
\* whose ids are congruent, and a slot given a color keeps it.
DefaultColorByUser ==
    \A p \in Procs :
        (Returned(p) /\ result[p].success /\ call[p].op \in {"add", "update", "merge"})
        => \A i \in DOMAIN result[p].timeslots :
            LET slot == result[p].timeslots[i]
                given == GivenColor(p, i)
            IN  /\ store[slot.id].color = slot.color
                /\ given # "" => slot.color = given
                /\ given = "" =>
                    /\ slot.color = PRESET_COLORS[(slot.user % Len(PRESET_COLORS)) + 1]
                    /\ \A u \in Users :
                          u % Len(PRESET_COLORS) = slot.user % Len(PRESET_COLORS)
                          => slot.color = getColorForId(u)

\* user 11 was given two slots, one with a color and one without, and the
\* one without has the color of user 1
WitnessColorOfCongruentUser ==
    \E p \in Procs :
        /\ Returned(p) /\ result[p].success /\ call[p].op = "add"
        /\ call[p].userId = 11
        /\ Len(result[p].timeslots) = 2
        /\ call[p].items[1].color = <<"#000000">>
        /\ result[p].timeslots[1].color = "#000000"
        /\ call[p].items[2].color = <<>>
        /\ result[p].timeslots[2].color = getColorForId(1)

(* ------------------------- claims about reading ------------------------ *)
\* handler 2 has read the slots of the user and project handler 1 added to
ReadBack ==
    /\ pc[1] = "done" /\ call[1].op = "add" /\ result[1].success
    /\ pc[2] = "done" /\ call[2].op = "read"
    /\ call[2].userId = call[1].userId /\ call[2].projectId = call[1].projectId

\* C22: after a successful addTimeslots for a user in a project,
\* getUserTimeSlots of that user and project returns every added slot, only
\* slots of that user and project, in ascending order of startTime.
AddThenReadReturnsAdded ==
    ReadBack =>
        LET added == result[1].timeslots
            read == result[2].timeslots
        IN  /\ \A i \in DOMAIN added : \E j \in DOMAIN read : read[j] = added[i]
            /\ \A j \in DOMAIN read :
                  read[j].user = call[1].userId /\ read[j].project = call[1].projectId
            /\ \A j, k \in DOMAIN read : j < k => read[j].startTime <= read[k].startTime

\* two slots were added, the later one first, next to one the user had
WitnessReadBackThree ==
    /\ ReadBack
    /\ Len(result[1].timeslots) = 2
    /\ result[1].timeslots[1].startTime > result[1].timeslots[2].startTime
    /\ Len(result[2].timeslots) = 3

(* ------------------------ claims about updating ------------------------ *)
\* the columns an update item can carry
Columns == {"startTime", "endTime", "notes", "status", "isLocked", "color"}

\* the update items of the call of p for the slot id
ItemsFor(p, id) == {call[p].items[i] : i \in {j \in DOMAIN call[p].items :
                                                call[p].items[j].id = id}}

\* C23: a successful updateTimeslots changes, on each slot it names, only
\* the columns its update item carries, and leaves every other slot as it
\* was.
UpdateIsPartial ==
    \A p \in Procs :
        (Returned(p) /\ call[p].op = "update" /\ result[p].success)
        => /\ DOMAIN store = DOMAIN base.store
           /\ \A id \in DOMAIN store :
                /\ id \notin Range(call[p].ids) => store[id] = base.store[id]
                /\ \A u \in ItemsFor(p, id) :
                     /\ \A f \in Columns :
                          u[f] = <<>> => store[id][f] = base.store[id][f]
                     /\ \A f \in {"id", "project", "user", "createdBy"} :
                          store[id][f] = base.store[id][f]

\* the update moved the start of slot 1 and kept its notes, its color and
\* slot 2
WitnessStartMoved ==
    \E p \in Procs :
        /\ Returned(p) /\ call[p].op = "update" /\ result[p].success
        /\ call[p].ids = <<1>>
        /\ 2 \in DOMAIN store
        /\ store[1].startTime # base.store[1].startTime
        /\ store[1].notes = "x" /\ store[1].color = "#000000"

\* C24: id, project, user and createdBy of a slot never change, whatever
\* calls of updateTimeslots (and of the other operations) run.
IdentityKept ==
    [][\A id \in DOMAIN store \cap DOMAIN store' :
          /\ store'[id].id = id
          /\ \A f \in {"id", "project", "user", "createdBy"} :
                store'[id][f] = store[id][f]]_vars

\* user 3 has made busy a slot that user 1 created as available
WitnessUpdatedKeepsCreator ==
    \E p \in Procs :
        /\ Returned(p) /\ call[p].op = "update" /\ result[p].success
        /\ call[p].userId = 3
        /\ \E id \in Range(call[p].ids) \cap DOMAIN store :
              /\ store[id].status = "busy" /\ store[id].notes = "x"
              /\ store[id].createdBy = 1

(* -------------------- claims about storage failures -------------------- *)
\* C25: when the save of an item of an addTimeslots or updateTimeslots
\* batch fails, the call returns a failure and no item of the batch is
\* left written in the table.
NoPartialWriteOnFailure ==
    \A p \in Procs :
        (Returned(p) /\ call[p].op \in {"add", "update"} /\ result[p].error = "Exception")
        => ~result[p].success /\ store = base.store

(* ------------------------ claims about the input ----------------------- *)
\* an item of the call carries a status that is not one of the two
OddStatus(c) ==
    \E i \in DOMAIN c.items :
        c.items[i].status # <<>> /\ c.items[i].status[1] \notin Status

\* C26: every stored slot has the status available or busy, and an add or
\* update whose item carries another status is rejected.
StatusIsEnum ==
    /\ \A id \in DOMAIN store : store[id].status \in Status
    /\ \A p \in Procs :
          (Returned(p) /\ call[p].op \in {"add", "update"} /\ OddStatus(call[p]))
          => ~result[p].success

\* the call has nothing in its batch
EmptyBatch(c) ==
    \/ c.op = "add" /\ c.items = <<>>
    \/ c.op \in {"update", "delete", "merge"} /\ c.ids = <<>>

\* C27: addTimeslots with no items, and updateTimeslots, deleteTimeslots
\* and mergeTimeslots with no ids, return a failure, leave the table as it
\* was and cause no event.
EmptyBatchRejected ==
    \A p \in Procs :
        (Returned(p) /\ EmptyBatch(call[p]))
        => /\ ~result[p].success
           /\ store = base.store
           /\ events = <<>>

\* only the merge of no slots fails
EmptyMergeRejected ==
    \A p \in Procs :
        (Returned(p) /\ EmptyBatch(call[p]) /\ call[p].op = "merge")
        => ~result[p].success /\ store = base.store

(* ----------------------- claims about the checks ----------------------- *)
\* the ids of the call that no row had when the call came in
Absent(p) == {id \in Range(call[p].ids) : id \notin DOMAIN base.store}

\* C28: updateTimeslots, deleteTimeslots and mergeTimeslots fail as not
\* found exactly when an id of the batch is absent from the table, and the
\* error lists exactly the absent ids; a batch whose ids all exist, repeated
\* or not, is not rejected as not found.
NotFoundIffAbsent ==
    \A p \in Procs :
        (Returned(p) /\ call[p].op \in {"update", "delete", "merge"})
        => /\ result[p].error = "NotFound" <=> Absent(p) # {}
           /\ result[p].error = "NotFound" => Range(result[p].ids) = Absent(p)

\* the same for the batches that name no id twice
NotFoundIffAbsentWhenNamedOnce ==
    \A p \in Procs :
        (/\ Returned(p) /\ call[p].op \in {"update", "delete", "merge"}
         /\ Cardinality(Range(call[p].ids)) = Len(call[p].ids))
        => /\ result[p].error = "NotFound" <=> Absent(p) # {}
           /\ result[p].error = "NotFound" => Range(result[p].ids) = Absent(p)

\* C29: when requestUserId resolves to no user, updateTimeslots,
\* deleteTimeslots and mergeTimeslots fail and leave the table as it was,
\* also when every slot they name is unlocked.
RequesterMustExist ==
    \A p \in Procs :
        (/\ Returned(p) /\ call[p].op \in {"update", "delete", "merge"}
         /\ call[p].userId \notin Users)
        => ~result[p].success /\ store = base.store

\* an unknown requester was refused on two unlocked slots of the project
WitnessUnknownRequester ==
    \E p \in Procs :
        /\ Returned(p) /\ call[p].op \in {"update", "delete", "merge"}
        /\ call[p].userId \notin Users
        /\ result[p].error = "UserNotFound"
        /\ call[p].ids = <<1, 2>>
        /\ \A id \in {1, 2} : ~store[id].isLocked /\ store[id].project = call[p].projectId

(* ------------------ claims about failures and events ------------------- *)
\* C30: a gateway operation whose store call returns a failure emits no
\* event, and whenever an updateTimeslots call has changed a slot of the
\* table, an event is emitted.
EventIffTableChanged ==
    [][\A p \in Procs :
        (Replies(p) /\ call[p].via = "gateway")
        => /\ ~result[p].success => events' = events
           /\ (call[p].op = "update" /\ store # base.store) => events' # events]_vars

\* the first half alone: no event after a failure
FailureEmitsNothing ==
    [][\A p \in Procs :
        (Replies(p) /\ call[p].via = "gateway" /\ ~result[p].success)
        => events' = events]_vars

\* the second half for the updates whose emit does not throw
ChangeAnnouncedUnlessEmitThrows ==
    [][\A p \in Procs :
        (/\ Replies(p) /\ call[p].via = "gateway"
         /\ call[p].op = "update" /\ store # base.store
         /\ result[p].success => result'[p].success)
        => events' # events]_vars

(* --------------------- claims about the merged span -------------------- *)
\* C35: when every input slot of a merge has startTime <= endTime, the
\* merged slot has startTime <= endTime.
MergeKeepsWellFormed ==
    \A p \in Procs :
        (HasMerged(p) /\ \A slot \in Inputs(p) : slot.startTime <= slot.endTime)
        => Merged(p).startTime <= Merged(p).endTime

\* two slots that do not touch, the later one returned first, were merged
WitnessMergedApart ==
    \E p \in Procs :
        /\ HasMerged(p) /\ pc[p] = "done" /\ result[p].success
        /\ Len(snapshot[p]) = 2
        /\ \A slot \in Inputs(p) : slot.startTime <= slot.endTime
        /\ snapshot[p][2].endTime < snapshot[p][1].startTime
        /\ Merged(p).startTime < Merged(p).endTime

(* ------------------- claims about calls that overlap ------------------- *)
\* C32: each slot is consumed by at most one merge: of two mergeTimeslots
\* calls that name a common id, at most one succeeds.
SlotMergedOnce ==
    \A p \in Procs : \A q \in Procs \ {p} :
        (/\ Returned(p) /\ call[p].op = "merge"
         /\ Returned(q) /\ call[q].op = "merge"
         /\ Range(call[p].ids) \cap Range(call[q].ids) # {})
        => ~(result[p].success /\ result[q].success)

\* C33: a deleted slot stays deleted: once the row of an id is gone, no
\* updateTimeslots that read the row before brings the id back.
DeletedStaysDeleted ==
    [][\A id \in Ids :
        (id < nextId /\ id \notin DOMAIN store) => id \notin DOMAIN store']_vars

(* ------------------------- claims about the lock ----------------------- *)
\* the handler whose step this is, for the steps that write a row
Writes(p) ==
    \/ pc[p] = "saving" /\ call[p].op = "update"
    \/ pc[p] = "idle" /\ call'[p].op \in {"lock", "unlock"}

\* the call an update of p that has returned made for one unlocked slot of
\* its project, to lock it
LocksOne(p) ==
    /\ Returned(p) /\ call[p].op = "update" /\ call[p].userId \in Users
    /\ Len(call[p].ids) = 1
    /\ call[p].items[1].isLocked = <<TRUE>>
    /\ call[p].ids[1] \in DOMAIN base.store
    /\ ~base.store[call[p].ids[1]].isLocked
    /\ base.store[call[p].ids[1]].project = call[p].projectId

WitnessLockedByOther ==
    \E p \in Procs :
        /\ LocksOne(p) /\ call[p].userId = 3
        /\ store[call[p].ids[1]].isLocked
        /\ store[call[p].ids[1]].user = 2 /\ store[call[p].ids[1]].createdBy = 1

NamesNoUser(data) ==
    /\ data.requestUserId = 0
    /\ \/ data.requestUserTelegramId = 0
       \/ \A u \in Users : TelegramIdOf[u] # data.requestUserTelegramId

Arrived(p) == pc[p] # "idle" /\ call[p].via = "gateway"
                /\ call[p].op \in {"update", "delete", "merge"}

WitnessRequestUserIdFirst ==
    \E p \in Procs :
        /\ Arrived(p) /\ pc[p] = "replied"
        /\ call[p].requestUserId = 3 /\ call[p].requestUserTelegramId = 101
        /\ result[p].error = "Forbidden"

(* ----------------------- claims about the Telegram bot ----------------- *)
\* handler b is in handleUserMessage or handleVoiceMessage and has set the
\* state of its user to PROCESSING_MESSAGE
SetItProcessing(b) ==
    /\ handler[b].kind \in {"text", "voice"}
    /\ handler[b].pc \in {"lookup", "missing", "ai", "answer", "sorry"}

\* no other handler of the same user is in flight
OnlyHandlerOfUser(b) ==
    \A o \in Handlers \ {b} : handler[o].tgUser # handler[b].tgUser

\* C36: when handleUserMessage or handleVoiceMessage returns after it has
\* set the state to PROCESSING_MESSAGE, on whatever path, and no other
\* handler of the user is running, the state of the user is not
\* PROCESSING_MESSAGE.
ProcessingIsTransient ==
    [][\A b \in Handlers :
          (SetItProcessing(b) /\ OnlyHandlerOfUser(b) /\ handler'[b].pc = "idle")
          => userStates'[handler[b].tgUser].state # "processing_message"]_vars

\* C37: when the last project selection of a user took place while a
\* message of that user was being processed, and every handler of the user
\* has finished, the currentProjectId of the user is the selected project.
SelectionNotLost ==
    \A u \in TgUsers :
        (/\ \A b \in Handlers : handler[b].tgUser # u
         /\ selected[u].during
         /\ selected[u].projectId \in Projects)
        => userStates[u].currentProjectId = selected[u].projectId

(* ---------------------- claims about the conversation ------------------ *)
IsSuffix(s, t) == Len(s) <= Len(t) /\ s = SubSeq(t, Len(t) - Len(s) + 1, Len(t))

\* C38: the stored history of every context holds at most 10 messages, and
\* they are the most recent messages of the context in their order.
HistoryBounded ==
    \A pr \in Projects :
        /\ Len(conversationContexts[pr]) <= HistoryLimit
        /\ IsSuffix(conversationContexts[pr], said[pr])

\* a context that has lost its oldest messages and holds ten
WitnessHistoryFull ==
    \E pr \in Projects :
        /\ Len(said[pr]) > HistoryLimit
        /\ Len(conversationContexts[pr]) = HistoryLimit

\* C39: in every stored history, every tool message follows an assistant
\* message that has a tool call of its id, and every tool call of an
\* assistant message has a tool message of its id.
HistoryToolCallConsistent ==
    \A pr \in Projects :
        LET messages == conversationContexts[pr] IN
        \A i \in DOMAIN messages :
            /\ messages[i].role = "tool"
                => \E j \in 1..(i - 1) :
                      /\ messages[j].role = "assistant"
                      /\ messages[i].tool_call_id \in Range(messages[j].tool_calls)
            /\ messages[i].role = "assistant"
                => \A tc \in Range(messages[i].tool_calls) :
                      \E j \in DOMAIN messages :
                          messages[j].role = "tool" /\ messages[j].tool_call_id = tc

\* the last ten messages began in the middle of a tool exchange, and a
\* whole tool exchange is stored after it
WitnessExchangeCut ==
    \E pr \in Projects :
        /\ Len(said[pr]) > HistoryLimit
        /\ limitedMessages(said[pr])[1].role = "tool"
        /\ \E i \in DOMAIN conversationContexts[pr] :
                conversationContexts[pr][i].role = "tool"

====
